---------------------------- MODULE Spec2Model ----------------------------
(***************************************************************************)
(* Model of src/cim_models/cim_qa.py: the Coherent Ising Machine with a    *)
(* quantum-adiabaticity annealing schedule.  cim_qa integrates the SDE and *)
(* records the full trajectory; cim_qa_gpu integrates the same recurrence  *)
(* with a precomputed noise buffer and the fused_update kernel.            *)
(*                                                                         *)
(* The step count int(T / dt) is computed as the program computes it, by a  *)
(* double-precision division.  The values of the update are exact          *)
(* rationals <<numerator, denominator>> in lowest terms with a positive     *)
(* denominator.  A vector is a function on 1..N, a matrix a function on    *)
(* 1..N of vectors.                                                        *)
(*                                                                         *)
(* A caller makes two calls with the same arguments, one after the other;  *)
(* call 1 is always cim_qa, call 2 is cim_qa_gpu (Spec) or a repeated      *)
(* cim_qa (SpecRepeat).  A ZeroDivisionError ends a call without a result. *)
(***************************************************************************)
EXTENDS Integers, Sequences, FiniteSets

VARIABLES
    args,     \* the arguments x0, alpha, p, J, noise_level, coupling_coeff, dt, T, N, M
    rng,      \* per call: the random source, [seed, pos]
    frame,    \* per call: the locals of the function body
    hist      \* per call: bookkeeping about the loop (not program state)

vars == <<args, rng, frame, hist>>

Calls == {1, 2}

(***************************** bounds **************************************)
MaxN == 2
MaxSteps == 5
MaxM == 3
MaxSeed == 1
MaxAbs == 100

(************************* exact arithmetic ********************************)
Abs(n) == IF n < 0 THEN -n ELSE n

RECURSIVE Gcd(_, _)
Gcd(a, b) == IF b = 0 THEN a ELSE Gcd(b, a % b)

QNorm(n, d) == LET g == Gcd(Abs(n), d) IN <<n \div g, d \div g>>

Q(n) == <<n, 1>>

QAdd(a, b) ==
    LET g == Gcd(a[2], b[2])
    IN  QNorm(a[1] * (b[2] \div g) + b[1] * (a[2] \div g), (a[2] \div g) * b[2])

QNeg(a) == <<-a[1], a[2]>>

QSub(a, b) == QAdd(a, QNeg(b))

QMul(a, b) ==
    IF a[1] = 0 \/ b[1] = 0 THEN <<0, 1>>
    ELSE LET g1 == Gcd(Abs(a[1]), b[2])
             g2 == Gcd(Abs(b[1]), a[2])
         IN  <<(a[1] \div g1) * (b[1] \div g2), (a[2] \div g2) * (b[2] \div g1)>>

(********************** double-precision division **************************)
(* T / dt is a division of two Python floats: the quotient of the two doubles,    *)
(* rounded to the nearest double (ties to even), and int() truncates that double. *)
(* A double is [s, m, e] with value s * m * 2^e, s the sign, m = 0 or             *)
(* 2^52 <= m < 2^53.  A significand is a natural number held as a sequence of     *)
(* digits to the base Limb, least significant first, without leading zeros.       *)
(* Exponent overflow and subnormals are outside the arguments of the model.       *)
Limb == 32768

LimbBits == 15

Precision == 53

RECURSIVE BitLen(_)
BitLen(v) == IF v = 0 THEN 0 ELSE 1 + BitLen(v \div 2)

RECURSIVE BigOfInt(_)
BigOfInt(n) == IF n = 0 THEN <<>> ELSE <<n % Limb>> \o BigOfInt(n \div Limb)

BigBitLen(a) == IF a = <<>> THEN 0 ELSE LimbBits * (Len(a) - 1) + BitLen(a[Len(a)])

\* bit i of a, bit 0 the least significant
BigBit(a, i) ==
    LET k == i \div LimbBits + 1
    IN  IF k > Len(a) THEN 0 ELSE (a[k] \div 2 ^ (i % LimbBits)) % 2

RECURSIVE BigTrim(_)
BigTrim(a) ==
    IF a = <<>> THEN <<>>
    ELSE IF a[Len(a)] = 0 THEN BigTrim(SubSeq(a, 1, Len(a) - 1)) ELSE a

RECURSIVE BigCmpAt(_, _, _)
BigCmpAt(a, b, i) ==
    IF i = 0 THEN 0
    ELSE IF a[i] > b[i] THEN 1
    ELSE IF a[i] < b[i] THEN -1
    ELSE BigCmpAt(a, b, i - 1)

\* 1, 0 or -1 as a > b, a = b or a < b
BigCmp(a, b) ==
    IF Len(a) > Len(b) THEN 1
    ELSE IF Len(a) < Len(b) THEN -1
    ELSE BigCmpAt(a, b, Len(a))

RECURSIVE BigSubFrom(_, _, _, _)
BigSubFrom(a, b, i, borrow) ==
    IF i > Len(a) THEN <<>>
    ELSE LET v == a[i] - (IF i <= Len(b) THEN b[i] ELSE 0) - borrow
         IN  IF v < 0 THEN <<v + Limb>> \o BigSubFrom(a, b, i + 1, 1)
             ELSE <<v>> \o BigSubFrom(a, b, i + 1, 0)

\* a - b for a >= b
BigSub(a, b) == BigTrim(BigSubFrom(a, b, 1, 0))

RECURSIVE BigDoubleFrom(_, _, _)
BigDoubleFrom(a, i, carry) ==
    IF i > Len(a) THEN (IF carry = 0 THEN <<>> ELSE <<carry>>)
    ELSE LET v == 2 * a[i] + carry
         IN  <<v % Limb>> \o BigDoubleFrom(a, i + 1, v \div Limb)

\* 2 * a + bit
BigDouble(a, bit) == BigDoubleFrom(a, 1, bit)

RECURSIVE BigIncFrom(_, _)
BigIncFrom(a, i) ==
    IF i > Len(a) THEN <<1>>
    ELSE IF a[i] = Limb - 1 THEN <<0>> \o BigIncFrom(a, i + 1)
    ELSE <<a[i] + 1>> \o SubSeq(a, i + 1, Len(a))

\* a + 1
BigInc(a) == BigIncFrom(a, 1)

RECURSIVE BigMulFrom(_, _, _, _)
BigMulFrom(a, k, i, carry) ==
    IF i > Len(a) THEN (IF carry = 0 THEN <<>> ELSE <<carry>>)
    ELSE LET v == a[i] * k + carry
         IN  <<v % Limb>> \o BigMulFrom(a, k, i + 1, v \div Limb)

\* a * k for a digit k
BigMulSmall(a, k) == BigTrim(BigMulFrom(a, k, 1, 0))

\* a * 2^s
BigShift(a, s) ==
    BigTrim([i \in 1..(s \div LimbBits) |-> 0] \o BigMulFrom(a, 2 ^ (s % LimbBits), 1, 0))

\* the largest digit k in lo..hi with k * d <= r
RECURSIVE QuotientDigit(_, _, _, _)
QuotientDigit(r, d, lo, hi) ==
    IF lo = hi THEN lo
    ELSE LET mid == (lo + hi + 1) \div 2
         IN  IF BigCmp(BigMulSmall(d, mid), r) <= 0
             THEN QuotientDigit(r, d, mid, hi)
             ELSE QuotientDigit(r, d, lo, mid - 1)

\* long division, digit by digit: quotient and remainder of the digits of n from
\* digit j up, divided by d
RECURSIVE BigDivFrom(_, _, _)
BigDivFrom(n, d, j) ==
    IF j > Len(n) THEN [q |-> <<>>, r |-> <<>>]
    ELSE LET above == BigDivFrom(n, d, j + 1)
             r2 == BigTrim(<<n[j]>> \o above.r)
             k == QuotientDigit(r2, d, 0, Limb - 1)
         IN  [q |-> BigTrim(<<k>> \o above.q), r |-> BigSub(r2, BigMulSmall(d, k))]

\* quotient and remainder of a * 2^s by d, for d # 0 and s >= 0
BigDivMod(a, s, d) == BigDivFrom(BigShift(a, s), d, 1)

\* floor(a / 2^k) as an integer, for a result the integers hold
RECURSIVE BigTopInt(_, _, _, _)
BigTopInt(a, i, k, acc) ==
    IF i < k THEN acc ELSE BigTopInt(a, i - 1, k, 2 * acc + BigBit(a, i))

\* The double nearest to sign * (a / d) * 2^e0, ties to even; a > 0, d > 0.
round_quotient(sign, a, d, e0) ==
    LET s0 == Precision + BigBitLen(d) - BigBitLen(a)
        d1 == BigDivMod(a, s0 - 1, d)
        s == IF BigBitLen(d1.q) = Precision THEN s0 - 1 ELSE s0
        qr == IF s = s0 - 1 THEN d1 ELSE BigDivMod(a, s0, d)
        half == BigCmp(BigDouble(qr.r, 0), d)
        m == IF half > 0 \/ (half = 0 /\ BigBit(qr.q, 0) = 1) THEN BigInc(qr.q) ELSE qr.q
    IN  IF BigBitLen(m) > Precision
        THEN [s |-> sign, m |-> BigDivMod(m, 0, <<2>>).q, e |-> e0 - s + 1]
        ELSE [s |-> sign, m |-> m, e |-> e0 - s]

Sign(n) == IF n < 0 THEN -1 ELSE 1

\* The float an argument is: the double nearest to the rational q the caller wrote
\* (0.1 is 3602879701896397 / 2^55); a dyadic rational such as 0.25 or 5.5 is itself.
float(q) ==
    IF q[1] = 0 THEN [s |-> 1, m |-> <<>>, e |-> 0]
    ELSE round_quotient(Sign(q[1]), BigOfInt(Abs(q[1])), BigOfInt(q[2]), 0)

\* line 27: T / dt for two floats, dt # 0
truediv(x, y) ==
    IF x.m = <<>> THEN [s |-> x.s * y.s, m |-> <<>>, e |-> 0]
    ELSE round_quotient(x.s * y.s, x.m, y.m, x.e - y.e)

\* line 27: int(v) for a float v, truncation toward zero
int(v) ==
    IF v.e >= 0 THEN v.s * BigTopInt(v.m, BigBitLen(v.m) - 1, 0, 0) * 2 ^ v.e
    ELSE v.s * BigTopInt(v.m, BigBitLen(v.m) - 1, -v.e, 0)

ISqrt(n) == CHOOSE r \in 0..n : r * r = n

IsSquare(n) == \E r \in 0..n : r * r = n

\* sqrt of a rational whose numerator and denominator are perfect squares
sqrt(q) == <<ISqrt(q[1]), ISqrt(q[2])>>

Cube(a) == QMul(a, QMul(a, a))

RECURSIVE SumTo(_, _)
SumTo(f, n) == IF n = 0 THEN Q(0) ELSE QAdd(SumTo(f, n - 1), f[n])

\* np.dot(A, v) for an N x N matrix and an N vector
dot(A, v, N) == [i \in 1..N |-> SumTo([j \in 1..N |-> QMul(A[i][j], v[j])], N)]

ones(N) == [i \in 1..N |-> [j \in 1..N |-> Q(1)]]

eye(N) == [i \in 1..N |-> [j \in 1..N |-> IF i = j THEN Q(1) ELSE Q(0)]]

zeros(rows, N) == [k \in 1..rows |-> [i \in 1..N |-> Q(0)]]

MatSub(A, B, N) == [i \in 1..N |-> [j \in 1..N |-> QSub(A[i][j], B[i][j])]]

MatAdd(A, B, N) == [i \in 1..N |-> [j \in 1..N |-> QAdd(A[i][j], B[i][j])]]

MatScale(c, A, N) == [i \in 1..N |-> [j \in 1..N |-> QMul(c, A[i][j])]]

(* The values a run is followed through: an iteration is taken only from a state  *)
(* whose numerators and denominators are within MaxAbs, so that the exact value   *)
(* of the next state (which cubes them) stays within the integers of the checker. *)
(* A run that leaves the range is not followed further.                           *)
VecInRange(v, N) == \A i \in 1..N : Abs(v[i][1]) <= MaxAbs /\ v[i][2] <= MaxAbs

(***************************** random source *******************************)
\* The pos-th standard deviate of the stream a seed determines.
deviate(seed, pos) == ((seed + pos) % 3) - 1

\* random.normal(loc, scale, N): N samples, read from position pos on
normal(loc, scale, N, seed, pos) ==
    [i \in 1..N |-> Q(loc + scale * deviate(seed, pos + i - 1))]

\* random.normal(loc, scale, size=(rows, N)): filled row by row
normal2(loc, scale, rows, N, seed, pos) ==
    [k \in 1..rows |-> normal(loc, scale, N, seed, pos + (k - 1) * N)]

(******************************* arguments *********************************)
Targets(N) ==
    { [i \in 1..N |-> [j \in 1..N |-> IF i = j THEN Q(0) ELSE Q(o)]] : o \in {-1, 2} }

InitialStates(N) ==
    { [i \in 1..N |-> Q(1)], [i \in 1..N |-> IF i % 2 = 1 THEN Q(1) ELSE Q(-1)] }

\* T: the halves 0.5, 1.5, ..., and 0.3
Durations == { QNorm(2 * k + 1, 2) : k \in 0..MaxSteps } \cup { <<3, 10>> }

\* dt: 1, 0.25 and 0.1
StepSizes == { Q(1), <<1, 4>>, <<1, 10>> }

ArgSets ==
    UNION { [x0 : InitialStates(n), alpha : {Q(0), Q(1)}, p : {Q(0), Q(2)},
             J : Targets(n), noise_level : {Q(0), Q(1)}, coupling_coeff : {Q(1)},
             dt : StepSizes, T : Durations, N : {n}, M : 0..MaxM]
            : n \in 1..MaxN }

\* line 27: num_steps = int(T / dt), worked out once for every T and dt of the model
num_steps_of == [t \in Durations, d \in StepSizes |-> int(truediv(float(t), float(d)))]

Seeds == 0..MaxSeed

Unbound ==
    [pc |-> "call", num_steps |-> 0, interval |-> 0, step |-> 0, m |-> 0, lam |-> Q(0),
     x |-> <<>>, Jb |-> <<>>, Jp |-> <<>>, J_t |-> <<>>, states |-> <<>>, noise |-> <<>>]

NoHist == [iterations |-> 0, assigns |-> 0, phases |-> {}, J_used |-> <<>>]

(******************************* caller ************************************)
Finished(r) == frame[r].pc \in {"return", "raised"}

\* The caller makes call 2 once call 1 has returned or raised.
Turn(r) == r = 1 \/ Finished(1)

(***************************** cim_qa **************************************)
\* anneal with the phase fraction taken one phase ahead: lam = (m + 1) / M
anneal_fraction_ahead(step, interval, M, Jb, Jp, N, prev) ==
    IF step % interval = 0
    THEN LET m == step \div interval
             lam == QNorm(m + 1, M)
         IN  [assigned |-> TRUE, m |-> m, lam |-> lam,
              J_t |-> IF m = M - 1
                      THEN Jp
                      ELSE MatAdd(MatScale(QSub(Q(1), lam), Jb, N), MatScale(lam, Jp, N), N)]
    ELSE [assigned |-> FALSE, m |-> prev.m, lam |-> prev.lam, J_t |-> prev.J_t]

\* anneal without the boundary test: the matrix is rebuilt at every step
anneal_every_step(step, interval, M, Jb, Jp, N, prev) ==
    LET m == step \div interval
        lam == QNorm(m, M)
    IN  [assigned |-> TRUE, m |-> m, lam |-> lam,
         J_t |-> IF m = M - 1
                 THEN Jp
                 ELSE MatAdd(MatScale(QSub(Q(1), lam), Jb, N), MatScale(lam, Jp, N), N)]

\* lines 38-44: the annealing schedule consulted at the top of every iteration
anneal(step, interval, M, Jb, Jp, N, prev) ==
    IF step % interval = 0
    THEN LET m == step \div interval
             lam == QNorm(m, M)
         IN  [assigned |-> TRUE, m |-> m, lam |-> lam,
              J_t |-> IF m = M - 1
                      THEN Jp
                      ELSE MatAdd(MatScale(QSub(Q(1), lam), Jb, N), MatScale(lam, Jp, N), N)]
    ELSE [assigned |-> FALSE, m |-> prev.m, lam |-> prev.lam, J_t |-> prev.J_t]

\* step_noise without the factor noise_level * sqrt(dt)
step_noise_unscaled(noise_level, dt, N, seed, pos) ==
    normal(-1, 1, N, seed, pos)

\* line 48
step_noise(noise_level, dt, N, seed, pos) ==
    LET z == normal(-1, 1, N, seed, pos)
    IN  [i \in 1..N |-> QMul(QMul(noise_level, sqrt(dt)), z[i])]

\* lines 46-49
euler_maruyama(x, J_t, noise, coupling_coeff, alpha, p, dt, N) ==
    LET I_inj == [i \in 1..N |-> QMul(coupling_coeff, dot(J_t, x, N)[i])]
        dx_dt == [i \in 1..N |->
                    QAdd(QSub(QMul(QSub(p, Q(1)), x[i]), QMul(alpha, Cube(x[i]))), I_inj[i])]
    IN  [i \in 1..N |-> QAdd(QAdd(x[i], QMul(dx_dt[i], dt)), noise[i])]

\* record_state writing row step instead of row step + 1
record_state_row_behind(states, step, x) == [states EXCEPT ![step + 1] = x]

\* line 50: states[step + 1] = x (rows are numbered from 1 here)
record_state(states, step, x) == [states EXCEPT ![step + 2] = x]

\* lines 26-35
cim_qa_setup(r) ==
    /\ Turn(r)
    /\ frame[r].pc = "call"
    /\ LET num_steps == num_steps_of[args.T, args.dt]
           states == [zeros(num_steps + 1, args.N) EXCEPT ![1] = args.x0]
           Jb == MatSub(ones(args.N), eye(args.N), args.N)
           bound == [Unbound EXCEPT !.num_steps = num_steps, !.states = states,
                                    !.x = args.x0, !.Jp = args.J, !.Jb = Jb, !.J_t = Jb]
       IN  frame' = [frame EXCEPT ![r] =
                IF args.M = 0
                THEN [bound EXCEPT !.pc = "raised"]
                ELSE [bound EXCEPT !.pc = "loop", !.interval = num_steps \div args.M]]
    /\ UNCHANGED <<args, rng, hist>>

\* lines 37-50: one iteration of the loop
cim_qa_iterate(r) ==
    LET f == frame[r] IN
    /\ Turn(r)
    /\ f.pc = "loop"
    /\ f.step < f.num_steps
    /\ VecInRange(f.x, args.N)
    /\ IF f.interval = 0
       THEN /\ frame' = [frame EXCEPT ![r].pc = "raised"]
            /\ hist' = [hist EXCEPT ![r].iterations = @ + 1]
            /\ UNCHANGED rng
       ELSE LET a == anneal(f.step, f.interval, args.M, f.Jb, f.Jp, args.N, f)
                noise == step_noise(args.noise_level, args.dt, args.N, rng[r].seed, rng[r].pos)
                x == euler_maruyama(f.x, a.J_t, noise, args.coupling_coeff, args.alpha,
                                    args.p, args.dt, args.N)
            IN  /\ frame' = [frame EXCEPT ![r] =
                       [f EXCEPT !.m = a.m, !.lam = a.lam, !.J_t = a.J_t, !.noise = noise,
                                 !.x = x, !.states = record_state(f.states, f.step, x),
                                 !.step = f.step + 1]]
                /\ rng' = [rng EXCEPT ![r].pos = @ + args.N]
                /\ hist' = [hist EXCEPT ![r] =
                       [iterations |-> @.iterations + 1,
                        assigns |-> IF a.assigned THEN @.assigns + 1 ELSE @.assigns,
                        phases |-> IF a.assigned THEN @.phases \cup {a.m} ELSE @.phases,
                        J_used |-> Append(@.J_used, a.J_t)]]
    /\ UNCHANGED args

\* line 52
cim_qa_return(r) ==
    /\ Turn(r)
    /\ frame[r].pc = "loop"
    /\ frame[r].step = frame[r].num_steps
    /\ frame' = [frame EXCEPT ![r].pc = "return"]
    /\ UNCHANGED <<args, rng, hist>>

cim_qa(r) == cim_qa_setup(r) \/ cim_qa_iterate(r) \/ cim_qa_return(r)

(*************************** cim_qa_gpu ************************************)
\* lines 89-95: the same schedule, on the device arrays
anneal_gpu(step, interval, M, Jb, Jp, N, prev) ==
    IF step % interval = 0
    THEN LET m == step \div interval
             lam == QNorm(m, M)
         IN  [assigned |-> TRUE, m |-> m, lam |-> lam,
              J_t |-> IF m = M - 1
                      THEN Jp
                      ELSE MatAdd(MatScale(QSub(Q(1), lam), Jb, N), MatScale(lam, Jp, N), N)]
    ELSE [assigned |-> FALSE, m |-> prev.m, lam |-> prev.lam, J_t |-> prev.J_t]

\* line 86: the whole noise sequence, one row per step
noise_buffer(noise_level, dt, num_steps, N, seed, pos) ==
    LET z == normal2(-1, 1, num_steps, N, seed, pos)
    IN  [k \in 1..num_steps |-> [i \in 1..N |-> QMul(QMul(noise_level, sqrt(dt)), z[k][i])]]

\* fused_update without the noise term
fused_update_no_noise(x, I_inj, noise, dt, alpha, p, N) ==
    [i \in 1..N |->
        QAdd(x[i],
             QMul(QAdd(QSub(QMul(QSub(p, Q(1)), x[i]), QMul(alpha, Cube(x[i]))), I_inj[i]),
                  dt))]

\* lines 110-113
fused_update(x, I_inj, noise, dt, alpha, p, N) ==
    [i \in 1..N |->
        QAdd(QAdd(x[i],
                  QMul(QAdd(QSub(QMul(QSub(p, Q(1)), x[i]), QMul(alpha, Cube(x[i]))), I_inj[i]),
                       dt)),
             noise[i])]

\* lines 71-86
cim_qa_gpu_setup(r) ==
    /\ Turn(r)
    /\ frame[r].pc = "call"
    /\ LET num_steps == num_steps_of[args.T, args.dt]
           Jb == MatSub(ones(args.N), eye(args.N), args.N)
           bound == [Unbound EXCEPT !.x = args.x0, !.Jp = args.J, !.Jb = Jb,
                                    !.num_steps = num_steps, !.J_t = Jb]
       IN  IF args.M = 0
           THEN /\ frame' = [frame EXCEPT ![r] = [bound EXCEPT !.pc = "raised"]]
                /\ UNCHANGED rng
           ELSE /\ frame' = [frame EXCEPT ![r] =
                       [bound EXCEPT !.pc = "loop", !.interval = num_steps \div args.M,
                                     !.noise = noise_buffer(args.noise_level, args.dt, num_steps,
                                                            args.N, rng[r].seed, rng[r].pos)]]
                /\ rng' = [rng EXCEPT ![r].pos = @ + num_steps * args.N]
    /\ UNCHANGED <<args, hist>>

\* lines 88-98: one iteration of the loop
cim_qa_gpu_iterate(r) ==
    LET f == frame[r] IN
    /\ Turn(r)
    /\ f.pc = "loop"
    /\ f.step < f.num_steps
    /\ VecInRange(f.x, args.N)
    /\ IF f.interval = 0
       THEN /\ frame' = [frame EXCEPT ![r].pc = "raised"]
            /\ hist' = [hist EXCEPT ![r].iterations = @ + 1]
       ELSE LET a == anneal_gpu(f.step, f.interval, args.M, f.Jb, f.Jp, args.N, f)
                I_inj == [i \in 1..args.N |->
                             QMul(args.coupling_coeff, dot(a.J_t, f.x, args.N)[i])]
                x == fused_update(f.x, I_inj, f.noise[f.step + 1], args.dt, args.alpha,
                                  args.p, args.N)
            IN  /\ frame' = [frame EXCEPT ![r] =
                       [f EXCEPT !.m = a.m, !.lam = a.lam, !.J_t = a.J_t, !.x = x,
                                 !.step = f.step + 1]]
                /\ hist' = [hist EXCEPT ![r] =
                       [iterations |-> @.iterations + 1,
                        assigns |-> IF a.assigned THEN @.assigns + 1 ELSE @.assigns,
                        phases |-> IF a.assigned THEN @.phases \cup {a.m} ELSE @.phases,
                        J_used |-> Append(@.J_used, a.J_t)]]
    /\ UNCHANGED <<args, rng>>

\* lines 105-107
cim_qa_gpu_return(r) ==
    /\ Turn(r)
    /\ frame[r].pc = "loop"
    /\ frame[r].step = frame[r].num_steps
    /\ frame' = [frame EXCEPT ![r].pc = "return"]
    /\ UNCHANGED <<args, rng, hist>>

cim_qa_gpu(r) == cim_qa_gpu_setup(r) \/ cim_qa_gpu_iterate(r) \/ cim_qa_gpu_return(r)

(**************************** specifications *******************************)
(* The arguments a run is followed for: at most MaxSteps steps, and noise only   *)
(* with a step size whose square root is rational (with noise_level = 0 the     *)
(* noise term is 0 whatever sqrt(dt) is).                                       *)
ArgsOK(a) ==
    /\ num_steps_of[a.T, a.dt] <= MaxSteps
    /\ a.noise_level # Q(0) => IsSquare(a.dt[1]) /\ IsSquare(a.dt[2])

InitCommon ==
    /\ args \in {a \in ArgSets : ArgsOK(a)}
    /\ frame = [r \in Calls |-> Unbound]
    /\ hist = [r \in Calls |-> NoHist]

\* cim_qa, then cim_qa_gpu on the same arguments and the same noise samples
Init ==
    /\ InitCommon
    /\ \E s \in Seeds : rng = [r \in Calls |-> [seed |-> s, pos |-> 0]]

Next == cim_qa(1) \/ cim_qa_gpu(2)

Spec == Init /\ [][Next]_vars

\* cim_qa twice on the same arguments, each call with a random stream of its own
InitRepeat ==
    /\ InitCommon
    /\ rng \in [Calls -> [seed : Seeds, pos : {0}]]

NextRepeat == cim_qa(1) \/ cim_qa(2)

SpecRepeat == InitRepeat /\ [][NextRepeat]_vars

(******************************* claims ************************************)
Started(r) == frame[r].pc \in {"loop", "return"}

\* The configuration the interface asks for: 1 <= M <= num_steps.
ValidConfig(r) == 1 <= args.M /\ args.M <= frame[r].num_steps

QLe(a, b) == a[1] * b[2] <= b[1] * a[2]

Blend(lam, Jb, Jp, N) == MatAdd(MatScale(QSub(Q(1), lam), Jb, N), MatScale(lam, Jp, N), N)

\* C1: with 1 <= M <= num_steps, the matrix used in the last integration step
\* (step = num_steps - 1) of cim_qa and of cim_qa_gpu is exactly the target J.
C1_LastStepUsesTarget ==
    \A r \in Calls :
        (Started(r) /\ ValidConfig(r) /\ frame[r].step = frame[r].num_steps)
            => hist[r].J_used[frame[r].num_steps] = args.J

\* C2: with 1 <= M <= num_steps, J_t is reassigned at no more than M steps of the loop.
C2_AtMostMReassignments ==
    \A r \in Calls : (Started(r) /\ ValidConfig(r)) => hist[r].assigns <= args.M

\* C3: with 1 <= M <= num_steps, the matrix used at every step is the target or the
\* convex combination (1-lam)*Jb + lam*J with lam = m/M and 0 <= lam <= 1.  (The
\* claim adds m <= M - 1; this formula asks for less, the bounds on lam alone.)
C3_ActiveMatrixIsConvexBlend ==
    \A r \in Calls :
        (Started(r) /\ ValidConfig(r) /\ frame[r].step >= 1)
            => \/ frame[r].J_t = args.J
               \/ /\ frame[r].J_t = Blend(frame[r].lam, frame[r].Jb, args.J, args.N)
                  /\ QLe(Q(0), frame[r].lam)
                  /\ QLe(frame[r].lam, Q(1))

\* C5: a configuration with M = 0 or num_steps // M = 0 is rejected before the loop:
\* no iteration is entered and no result is returned.
C5_InvalidConfigRejectedBeforeLoop ==
    \A r \in Calls :
        (frame[r].pc # "call" /\ (args.M = 0 \/ frame[r].num_steps \div args.M = 0))
            => hist[r].iterations = 0 /\ frame[r].pc # "return"

\* C4: driven with the same noise samples, cim_qa_gpu (call 2) selects at every step
\* the matrix cim_qa (call 1) selected and holds after every step the state cim_qa
\* recorded; both calls end the same way and return the same final state.
C4_GpuMatchesCpu ==
    /\ Started(2) =>
          LET k == frame[2].step
          IN  /\ frame[1].pc # "call"
              /\ frame[2].x = frame[1].states[k + 1]
              /\ hist[2].J_used = SubSeq(hist[1].J_used, 1, k)
    /\ Finished(2) => frame[2].pc = frame[1].pc
    /\ frame[2].pc = "return" => frame[2].x = frame[1].x

C4_Witness ==
    /\ frame[1].pc = "return" /\ frame[2].pc = "return"
    /\ frame[2].num_steps >= 3
    /\ args.noise_level # Q(0) /\ args.alpha # Q(0) /\ args.N = 2
    /\ hist[2].assigns >= 2

\* k = floor(v) for a float v >= 0: k <= v < k + 1, compared as multiples of 2^v.e
IsFloor(k, v) ==
    IF v.m = <<>> THEN k = 0
    ELSE /\ v.s = 1 /\ v.e < 0 /\ k >= 0
         /\ BigCmp(BigShift(BigOfInt(k), -v.e), v.m) <= 0
         /\ BigCmp(v.m, BigShift(BigOfInt(k + 1), -v.e)) < 0

\* The quotient T / dt as the program's division gives it.
T_over_dt == [t \in Durations, d \in StepSizes |-> truediv(float(t), float(d))]

\* In every state of a call of cim_qa: num_steps = floor(T / dt), num_steps + 1 rows,
\* row 0 the initial state, the row of the current step the current state, later
\* rows still zero.
C6_Recorded ==
    Started(1) =>
        LET f == frame[1]
        IN  /\ IsFloor(f.num_steps, T_over_dt[args.T, args.dt])
            /\ DOMAIN f.states = 1..(f.num_steps + 1)
            /\ f.states[1] = args.x0
            /\ f.states[f.step + 1] = f.x
            /\ \A k \in (f.step + 2)..(f.num_steps + 1) : f.states[k] = [i \in 1..args.N |-> Q(0)]
            /\ f.pc = "return" => f.x = f.states[f.num_steps + 1]

C6_WrittenOnce ==
    Started(1) => \A k \in 1..(frame[1].step + 1) : frame'[1].states[k] = frame[1].states[k]

\* C6: the trajectory of cim_qa has num_steps + 1 entries, with num_steps the floor of
\* the quotient T / dt the program computes, entry 0 is the initial state, entry k is
\* the state after k steps, a written entry is never modified, and the returned final
\* state is the last entry.
C6_Trajectory == [](C6_Recorded) /\ [][C6_WrittenOnce]_vars

\* A returned run of T = 0.3, dt = 0.1, where the quotient of the two floats is
\* 2.9999999999999996: two steps, three rows, each row different from the one before.
C6_Witness ==
    /\ frame[1].pc = "return"
    /\ args.T = <<3, 10>> /\ args.dt = <<1, 10>>
    /\ frame[1].num_steps = 2
    /\ args.alpha # Q(0) /\ args.N = 2
    /\ \A k \in 1..frame[1].num_steps : frame[1].states[k + 1] # frame[1].states[k]

\* C7: with noise_level = 0, two calls of cim_qa with the same arguments record the
\* same trajectory and return the same final state, whatever the random source gives.
C7_ZeroNoiseDeterminism ==
    (args.noise_level = Q(0) /\ Started(1) /\ Started(2)) =>
        /\ \A j \in 1..(frame[2].step + 1) : frame[2].states[j] = frame[1].states[j]
        /\ frame[2].pc = "return" =>
              frame[2].x = frame[1].x /\ frame[2].states = frame[1].states

C7_Witness ==
    /\ args.noise_level = Q(0)
    /\ rng[1].seed # rng[2].seed
    /\ frame[1].pc = "return" /\ frame[2].pc = "return"
    /\ frame[2].num_steps >= 3
    /\ frame[2].x # args.x0

\* The base matrix and the first state of the boundary scenario, written out by hand.
BlankMatrix == [i \in 1..args.N |-> [j \in 1..args.N |-> IF i = j THEN Q(0) ELSE Q(1)]]

OthersSum(i) == SumTo([j \in 1..args.N |-> IF j = i THEN Q(0) ELSE args.x0[j]], args.N)

FirstStateByHand ==
    [i \in 1..args.N |->
        QAdd(args.x0[i],
             QMul(QAdd(QSub(QMul(QSub(args.p, Q(1)), args.x0[i]),
                            QMul(args.alpha, Cube(args.x0[i]))),
                       QMul(args.coupling_coeff, OthersSum(i))),
                  args.dt))]

FirstStepOnBlank ==
    /\ hist[1].J_used[1] = BlankMatrix
    /\ args.noise_level = Q(0) => frame[1].states[2] = FirstStateByHand

\* C8 as stated: with 1 <= M <= num_steps the first step of cim_qa uses Jb, and with
\* zero noise the first recorded state is x0 + ((p-1)*x0 - alpha*x0^3 + c*(Jb . x0))*dt.
C8_FirstStepOnBlank_AnyM ==
    (Started(1) /\ ValidConfig(1) /\ frame[1].step >= 1) => FirstStepOnBlank

\* C8 amended: the same for 2 <= M <= num_steps (with M = 1 phase 0 is the final phase
\* and the first step uses the target).
C8_FirstStepOnBlank ==
    (Started(1) /\ ValidConfig(1) /\ args.M >= 2 /\ frame[1].step >= 1) => FirstStepOnBlank

C8_Witness ==
    /\ Started(1) /\ ValidConfig(1) /\ args.M >= 2 /\ frame[1].step >= 1
    /\ args.noise_level = Q(0) /\ args.alpha # Q(0) /\ args.N = 2
    /\ args.J # BlankMatrix
    /\ frame[1].states[2] # args.x0

\* C9: when num_steps is an exact multiple of M >= 1, a finished run has had exactly M
\* phase boundaries, with m = 0..M-1, and every step from (M-1)*interval on used the
\* target.
ExactlyMPhases(r) ==
    /\ hist[r].assigns = args.M
    /\ hist[r].phases = 0..(args.M - 1)
    /\ \A k \in ((args.M - 1) * frame[r].interval + 1)..frame[r].num_steps :
          hist[r].J_used[k] = args.J

C9_ExactMultipleHasMPhases ==
    \A r \in Calls :
        (frame[r].pc = "return" /\ args.M >= 1 /\ frame[r].num_steps % args.M = 0)
            => ExactlyMPhases(r)

\* The same for a positive multiple (num_steps >= M), the configurations the interface
\* allows.
C9_PositiveMultipleHasMPhases ==
    \A r \in Calls :
        (frame[r].pc = "return" /\ ValidConfig(r) /\ frame[r].num_steps % args.M = 0)
            => ExactlyMPhases(r)

\* What one iteration of call r leaves alone.
C10_Frame(r) ==
    (frame[r].pc = "loop" /\ frame'[r].step = frame[r].step + 1) =>
        /\ frame[r].step % frame[r].interval # 0 =>
              /\ frame'[r].J_t = frame[r].J_t
              /\ hist'[r].assigns = hist[r].assigns
        /\ frame'[r].Jb = frame[r].Jb
        /\ frame'[r].Jp = frame[r].Jp
        /\ frame'[r].Jp = args'.J
        /\ args' = args

\* C10: an iteration with step mod interval # 0 leaves J_t as the previous step left it
\* and rebuilds nothing, and no iteration modifies Jb or the target J.
C10_MatricesFramed == [][\A r \in Calls : C10_Frame(r)]_vars

C10_Witness ==
    \E r \in Calls :
        /\ Started(r) /\ frame[r].interval >= 2
        /\ frame[r].step >= 2
        /\ (frame[r].step - 1) % frame[r].interval # 0
        /\ args.J # frame[r].Jb
        /\ frame[r].J_t # frame[r].Jb
        /\ frame[r].x # args.x0
=============================================================================
